---- MODULE Spec2Model ----
(***************************************************************************)
(* Tapify game-state engine (src/Tapify.py): energy regeneration, tap      *)
(* admission (rate window + replay cache), boosts, streaks and the tap     *)
(* ledger, as a state machine over the game_users / game_taps tables and   *)
(* the two process-local admission dictionaries.                           *)
(*                                                                         *)
(* Time is counted in ticks, TicksPerSec ticks to the second.  db_now()    *)
(* and time.monotonic() both read the variable now.                        *)
(***************************************************************************)
EXTENDS Integers, Sequences, FiniteSets, TLC

\* ------------------------------------------------------------------ bounds
TicksPerSec == 2          \* clock resolution of the model
MaxTime == 3              \* horizon of the clock in Spec, in seconds
MaxRegenTime == 9         \* horizon of the inputs of SpecRegen, in seconds
MaxBurst == 2             \* tap attempts per rate window in Spec
NumThreads == 2           \* concurrent requests in SpecConc
MaxReplayWindows == 10    \* rate windows the client of SpecReplay lives through

MaxDays == 8              \* horizon of the clock in SpecDays, in days
MaxDayTaps == 2           \* taps accepted in SpecDays
MaxUpgradeTaps == 1       \* taps served in SpecUpgrade
\* ------------------------------------------------------- program constants
MAX_TAPS_PER_SEC == 20
RATE_WINDOW_SEC == 1
RATE_DEQUE_MAXLEN == MAX_TAPS_PER_SEC * 3
NONCE_MAX_LEN == 200
NONCE_CACHE_LIMIT == 200
NONCE_CACHE_KEEP == 100
DEFAULT_ENERGY == 500
DEFAULT_MAX_ENERGY == 500
DEFAULT_REGEN_RATE == 3
MULTITAP_COST == 1000
AUTOTAP_COST == 3000
MAXENERGY_COST == 2500
MAXENERGY_STEP == 100
MULTITAP_MINUTES == 15
AUTOTAP_MINUTES == 10
BOOST_MULT == 2
DAY_WINDOW_DAYS == 1
WEEK_WINDOW_DAYS == 7
API_LEADERBOARD_LIMIT == 50

\* SQL NULL / Python None in a timestamp or date column
NONE == -1

Accounts == {1, 2}

Sec(s) == s * TicksPerSec
Minutes(m) == Sec(60 * m)
TicksPerDay == Sec(86400)
Days(n) == n * TicksPerDay

\* ----------------------------------------------------------------- helpers
Min(a, b) == IF a <= b THEN a ELSE b
Max(a, b) == IF a >= b THEN a ELSE b

\* Python int(x / y) on a float quotient: truncation toward zero (y > 0)
TruncDiv(a, b) == IF a >= 0 THEN a \div b ELSE -((-a) \div b)

\* Python "x or d" on an integer column
OrDefault(x, d) == IF x = 0 \/ x = NONE THEN d ELSE x

\* datetime.date() of a timestamp
DateOf(t) == t \div TicksPerDay

\* --------------------------------------------------------- compute_energy
\* Mutant: the checkpoint is moved to now whenever something was gained.
compute_energy_ckpt_now(user_row, t) ==
  LET max_energy == OrDefault(user_row.max_energy, DEFAULT_MAX_ENERGY)
      regen_rate_seconds == OrDefault(user_row.regen_rate_seconds, DEFAULT_REGEN_RATE)
      raw == user_row.energy_updated_at
      last == IF raw = NONE THEN t ELSE raw
      elapsed == TruncDiv(t - last, TicksPerSec)
      regen == elapsed \div Max(1, regen_rate_seconds)
  IN  [energy |-> Min(max_energy, user_row.energy + regen),
       last |-> IF regen > 0 THEN t ELSE last]

\* Mutant: the regenerated energy is not capped at max_energy.
compute_energy_nocap(user_row, t) ==
  LET regen_rate_seconds == OrDefault(user_row.regen_rate_seconds, DEFAULT_REGEN_RATE)
      raw == user_row.energy_updated_at
      last == IF raw = NONE THEN t ELSE raw
      elapsed == TruncDiv(t - last, TicksPerSec)
      regen == elapsed \div Max(1, regen_rate_seconds)
  IN  [energy |-> user_row.energy + regen,
       last |-> IF regen > 0 THEN last + Sec(regen * regen_rate_seconds) ELSE last]

\* Mutant: the checkpoint is advanced by one interval too many.
compute_energy_ckpt_ahead(user_row, t) ==
  LET max_energy == OrDefault(user_row.max_energy, DEFAULT_MAX_ENERGY)
      regen_rate_seconds == OrDefault(user_row.regen_rate_seconds, DEFAULT_REGEN_RATE)
      raw == user_row.energy_updated_at
      last == IF raw = NONE THEN t ELSE raw
      elapsed == TruncDiv(t - last, TicksPerSec)
      regen == elapsed \div Max(1, regen_rate_seconds)
  IN  [energy |-> Min(max_energy, user_row.energy + regen),
       last |-> IF regen > 0 THEN last + Sec((regen + 1) * regen_rate_seconds) ELSE last]

\* Mutant: the checkpoint is never advanced.
compute_energy_keep_ckpt(user_row, t) ==
  LET max_energy == OrDefault(user_row.max_energy, DEFAULT_MAX_ENERGY)
      regen_rate_seconds == OrDefault(user_row.regen_rate_seconds, DEFAULT_REGEN_RATE)
      raw == user_row.energy_updated_at
      last == IF raw = NONE THEN t ELSE raw
      elapsed == TruncDiv(t - last, TicksPerSec)
      regen == elapsed \div Max(1, regen_rate_seconds)
  IN  [energy |-> Min(max_energy, user_row.energy + regen),
       last |-> last]

\* compute_energy(user_row) evaluated when db_now() = t:
\* (available_energy, new_energy_updated_at)
compute_energy(user_row, t) ==
  LET max_energy == OrDefault(user_row.max_energy, DEFAULT_MAX_ENERGY)
      regen_rate_seconds == OrDefault(user_row.regen_rate_seconds, DEFAULT_REGEN_RATE)
      raw == user_row.energy_updated_at
      last == IF raw = NONE THEN t ELSE raw
      stored_energy == user_row.energy
      elapsed == TruncDiv(t - last, TicksPerSec)
      regen == elapsed \div Max(1, regen_rate_seconds)
      energy == Min(max_energy, stored_energy + regen)
  IN  [energy |-> energy,
       last |-> IF regen > 0 THEN last + Sec(regen * regen_rate_seconds) ELSE last]

\* ------------------------------------------------------------ can_tap_now
RECURSIVE EvictOld(_, _)
\* while dq and now - dq[0] > RATE_WINDOW_SEC: dq.popleft()
EvictOld(dq, t) ==
  IF dq # <<>> /\ t - Head(dq) > Sec(RATE_WINDOW_SEC)
  THEN EvictOld(Tail(dq), t)
  ELSE dq

\* deque(maxlen=...).append: a full deque drops its leftmost entry
DequeAppend(dq, t) ==
  IF Len(dq) >= RATE_DEQUE_MAXLEN THEN Append(Tail(dq), t) ELSE Append(dq, t)

\* Mutant: the length test is off by one (> instead of >=).
can_tap_now_off_by_one(dq, t) ==
  LET d == EvictOld(dq, t)
  IN  IF Len(d) > MAX_TAPS_PER_SEC
      THEN [ok |-> FALSE, dq |-> d]
      ELSE [ok |-> TRUE, dq |-> DequeAppend(d, t)]

\* Mutant: the attempt is recorded before the length test.
can_tap_now_record_first(dq, t) ==
  LET d == DequeAppend(EvictOld(dq, t), t)
  IN  IF Len(d) > MAX_TAPS_PER_SEC
      THEN [ok |-> FALSE, dq |-> d]
      ELSE [ok |-> TRUE, dq |-> d]

\* can_tap_now(chat_id) on the deque dq when time.monotonic() = t:
\* the verdict and the deque it leaves
can_tap_now(dq, t) ==
  LET d == EvictOld(dq, t)
  IN  IF Len(d) >= MAX_TAPS_PER_SEC
      THEN [ok |-> FALSE, dq |-> d]
      ELSE [ok |-> TRUE, dq |-> DequeAppend(d, t)]

\* ----------------------------------------------------------- replay cache
\* Nonces are strings, modelled as sequences of character codes; the nonces
\* that enter a cache differ in their first character.
NonceKey(nonce) == nonce[1]

\* list(s)[-100:] keeps the last 100 elements in the set's iteration order,
\* which follows the (randomized) string hashes: any element may be among
\* those kept or those dropped.  One outcome per rotation p of the cache's
\* key order: the keep elements that follow the p first ones, cyclically.
TrimOutcomes(s, keep) ==
  LET n == Cardinality(s)
      rank == [x \in s |-> Cardinality({y \in s : NonceKey(y) < NonceKey(x)})]
                @@ <<>>
  IN  {{x \in s : ((rank[x] - p) % n) < keep} : p \in 0..(n - 1)}

\* Mutant: the element just added always survives the cut (an ordered cache).
clean_old_nonces_keep_newest(s) ==
  IF Cardinality(s) > NONCE_CACHE_LIMIT
  THEN LET n == Cardinality(s)
           rank == [x \in s |-> Cardinality({y \in s : NonceKey(y) < NonceKey(x)})]
       IN  {{x \in s : rank[x] >= n - NONCE_CACHE_KEEP}}
  ELSE {s}

\* Mutant: the cut comes one element late (>= 202 instead of > 200).
clean_old_nonces_late(s) ==
  IF Cardinality(s) > NONCE_CACHE_LIMIT + 1
  THEN TrimOutcomes(s, NONCE_CACHE_KEEP)
  ELSE {s}

\* _clean_old_nonces: set(list(s)[-100:]) once the set holds more than 200;
\* the sets the cache can be left as
clean_old_nonces(s) ==
  IF Cardinality(s) > NONCE_CACHE_LIMIT
  THEN TrimOutcomes(s, NONCE_CACHE_KEEP)
  ELSE {s}

\* if not nonce or len(nonce) > 200
BadNonce(nonce) == nonce = <<>> \/ Len(nonce) > NONCE_MAX_LEN

\* ---------------------------------------------------------- streak_update
\* Mutant: every tap counts, also a second one on the same day.
streak_update_every_tap(gu, tapped_today, t) ==
  LET today == DateOf(t)
      last_date == gu.last_streak_at
      streak == gu.daily_streak
  IN  IF ~tapped_today
      THEN [streak |-> streak, date |-> IF last_date = NONE THEN today ELSE last_date]
      ELSE IF last_date # NONE /\ (last_date = today - 1 \/ last_date = today)
      THEN [streak |-> streak + 1, date |-> today]
      ELSE [streak |-> 1, date |-> today]

\* Mutant: a gap of two or more days does not reset the streak.
streak_update_no_reset(gu, tapped_today, t) ==
  LET today == DateOf(t)
      last_date == gu.last_streak_at
      streak == gu.daily_streak
  IN  IF ~tapped_today
      THEN [streak |-> streak, date |-> IF last_date = NONE THEN today ELSE last_date]
      ELSE IF last_date # NONE /\ last_date = today
      THEN [streak |-> streak, date |-> today]
      ELSE [streak |-> streak + 1, date |-> today]

\* (new_streak, new_last_date) when db_date_utc() = DateOf(t)
streak_update(gu, tapped_today, t) ==
  LET today == DateOf(t)
      last_date == gu.last_streak_at
      streak == gu.daily_streak
  IN  IF ~tapped_today
      THEN [streak |-> streak, date |-> IF last_date = NONE THEN today ELSE last_date]
      ELSE IF last_date # NONE /\ last_date = today - 1
      THEN [streak |-> streak + 1, date |-> today]
      ELSE IF last_date # NONE /\ last_date = today
      THEN [streak |-> streak, date |-> today]
      ELSE [streak |-> 1, date |-> today]

\* -------------------------------------------------------- boost_multiplier
\* Mutant: two active boosts multiply.
boost_multiplier_stacking(gu, t) ==
  (IF gu.multitap_until # NONE /\ gu.multitap_until > t THEN BOOST_MULT ELSE 1)
  * (IF gu.autotap_until # NONE /\ gu.autotap_until > t THEN BOOST_MULT ELSE 1)

boost_multiplier(gu, t) ==
  LET m1 == IF gu.multitap_until # NONE /\ gu.multitap_until > t
            THEN Max(1, BOOST_MULT) ELSE 1
  IN  IF gu.autotap_until # NONE /\ gu.autotap_until > t
      THEN Max(m1, BOOST_MULT) ELSE m1

\* ---------------------------------------------------------------- the store
\* the row upsert_user_if_missing inserts into game_users at time t
NewGameUser(t) ==
  [coins |-> 0, energy |-> DEFAULT_ENERGY, max_energy |-> DEFAULT_MAX_ENERGY,
   energy_updated_at |-> t, multitap_until |-> NONE, autotap_until |-> NONE,
   regen_rate_seconds |-> DEFAULT_REGEN_RATE, last_tap_at |-> NONE,
   daily_streak |-> 0, last_streak_at |-> NONE]

\* the table after get_game_user(chat_id): a missing row is inserted
get_game_user(gusers, chat_id, t) ==
  IF chat_id \in DOMAIN gusers THEN gusers
  ELSE [c \in DOMAIN gusers \cup {chat_id} |->
          IF c = chat_id THEN NewGameUser(t) ELSE gusers[c]]

\* UPDATE game_users SET <fields> WHERE chat_id = ...
update_game_user_fields(gusers, chat_id, fields) ==
  IF chat_id \notin DOMAIN gusers THEN gusers
  ELSE [gusers EXCEPT ![chat_id] =
          [f \in DOMAIN @ |-> IF f \in DOMAIN fields THEN fields[f] ELSE @[f]]]

\* add_tap, first statement: the row inserted into game_taps
TapRow(chat_id, t, delta, nonce) ==
  [chat_id |-> chat_id, ts |-> t, delta |-> delta, nonce |-> nonce]

\* Mutant: the coin credit ignores the multiplier.
add_tap_coins_unit(gusers, chat_id, delta, t) ==
  IF chat_id \notin DOMAIN gusers THEN gusers
  ELSE [gusers EXCEPT ![chat_id].coins = @ + 1, ![chat_id].last_tap_at = t]

\* add_tap, second statement: coins = COALESCE(coins,0) + delta, in the store
add_tap_coins(gusers, chat_id, delta, t) ==
  IF chat_id \notin DOMAIN gusers THEN gusers
  ELSE [gusers EXCEPT ![chat_id].coins = @ + delta, ![chat_id].last_tap_at = t]

\* Mutant: the tap writes back the recomputed energy without consuming one.
tap_energy_fields_no_consume(energy, energy_ts) ==
  [energy |-> energy, energy_updated_at |-> energy_ts]

\* api_tap: {"energy": energy - 1, "energy_updated_at": energy_ts}
tap_energy_fields(energy, energy_ts) ==
  [energy |-> energy - 1, energy_updated_at |-> energy_ts]

\* api_state: {"energy": energy, "energy_updated_at": energy_ts}
state_energy_fields(energy, energy_ts) ==
  [energy |-> energy, energy_updated_at |-> energy_ts]

\* ------------------------------------------------------------------ state
VARIABLES
  now,            \* the clock: db_now() and time.monotonic(), in ticks
  registered,     \* chat_ids whose users.payment_status is 'registered'
  game_users,     \* table game_users: chat_id -> row
  game_taps,      \* table game_taps, in insertion order
  rate_windows,   \* _rate_windows: chat_id -> deque of admission times
  recent_nonces,  \* _recent_nonces: chat_id -> set of nonces
  ret,            \* what the last handler returned
  th,             \* request threads of the concurrent specification
  passed,         \* history: chat_id -> times, within the last window, at which the rate gate was passed
  last_pass,      \* history: chat_id -> time of the last pass of the rate gate
  last_limited,   \* history: chat_id -> time of the last "Rate limited" answer
  start           \* history: table game_users when the process started

vars == <<now, registered, game_users, game_taps, rate_windows, recent_nonces,
          ret, th, passed, last_pass, last_limited, start>>

store == <<game_users, game_taps>>
admission == <<rate_windows, recent_nonces>>
history == <<passed, last_pass, last_limited>>

BoostNames == {"multitap", "autotap", "maxenergy", "turbo"}

\* Mutant: a refusal carries no balances (an opaque failure).
Resp_opaque_failure(op, chat_id, nonce, ok, error, coins, energy, max_energy, streak, ts) ==
  [op |-> op, chat_id |-> chat_id, nonce |-> nonce, ok |-> ok, error |-> error,
   coins |-> IF ok THEN coins ELSE NONE, energy |-> IF ok THEN energy ELSE NONE,
   max_energy |-> IF ok THEN max_energy ELSE NONE,
   daily_streak |-> streak, energy_ts |-> ts]

\* a handler's JSON answer; fields the answer lacks are NONE
Resp(op, chat_id, nonce, ok, error, coins, energy, max_energy, streak, ts) ==
  [op |-> op, chat_id |-> chat_id, nonce |-> nonce, ok |-> ok, error |-> error,
   coins |-> coins, energy |-> energy, max_energy |-> max_energy,
   daily_streak |-> streak, energy_ts |-> ts]

Fail(op, chat_id, nonce, error) ==
  Resp(op, chat_id, nonce, FALSE, error, NONE, NONE, NONE, NONE, NONE)

NoResp == Resp("none", 0, <<>>, FALSE, "", NONE, NONE, NONE, NONE, NONE)

\* ------------------------------------------------------------- api_tap
\* Mutant: one rate window and one replay cache shared by all accounts.
ApiTap_shared(chat_id, nonce) ==
  /\ UNCHANGED <<now, registered, th, start>>
  /\ IF chat_id \notin registered
     THEN /\ ret' = Fail("tap", chat_id, nonce, "Not registered")
          /\ UNCHANGED <<store, admission, history>>
     ELSE
     LET gate == can_tap_now(rate_windows[1], now) IN
     /\ rate_windows' = [rate_windows EXCEPT ![1] = gate.dq]
     /\ IF ~gate.ok
        THEN /\ ret' = Fail("tap", chat_id, nonce, "Rate limited")
             /\ last_limited' = [last_limited EXCEPT ![chat_id] = now]
             /\ UNCHANGED <<store, recent_nonces, passed, last_pass>>
        ELSE
        /\ passed' = [passed EXCEPT ![chat_id] = Append(@, now)]
        /\ last_pass' = [last_pass EXCEPT ![chat_id] = now]
        /\ UNCHANGED last_limited
        /\ IF BadNonce(nonce)
           THEN /\ ret' = Fail("tap", chat_id, nonce, "Bad nonce")
                /\ UNCHANGED <<store, recent_nonces>>
           ELSE IF nonce \in recent_nonces[1]
           THEN /\ ret' = Fail("tap", chat_id, nonce, "Replay blocked")
                /\ UNCHANGED <<store, recent_nonces>>
           ELSE
           \E kept \in clean_old_nonces(recent_nonces[1] \cup {nonce}) :
           LET
               gusers1 == get_game_user(game_users, chat_id, now)
               gu == gusers1[chat_id]
               ce == compute_energy(gu, now)
           IN
           /\ recent_nonces' = [recent_nonces EXCEPT ![1] = kept]
           /\ IF ce.energy < 1
              THEN /\ ret' = Resp("tap", chat_id, nonce, FALSE, "No energy", gu.coins,
                                  ce.energy, OrDefault(gu.max_energy, DEFAULT_MAX_ENERGY),
                                  NONE, NONE)
                   /\ game_users' = gusers1
                   /\ UNCHANGED game_taps
              ELSE
              LET mult == boost_multiplier(gu, now)
                  delta == 1 * mult
                  gusers2 == add_tap_coins(gusers1, chat_id, delta, now)
                  gusers3 == update_game_user_fields(gusers2, chat_id,
                                 tap_energy_fields(ce.energy, ce.last))
                  su == streak_update(gu, TRUE, now)
                  gusers4 == update_game_user_fields(gusers3, chat_id,
                                 [daily_streak |-> su.streak, last_streak_at |-> su.date])
                  gu2 == gusers4[chat_id]
                  ce2 == compute_energy(gu2, now)
              IN
              /\ game_taps' = Append(game_taps, TapRow(chat_id, now, delta, nonce))
              /\ game_users' = gusers4
              /\ ret' = Resp("tap", chat_id, nonce, TRUE, "", gu2.coins, ce2.energy,
                             OrDefault(gu2.max_energy, DEFAULT_MAX_ENERGY), NONE, NONE)

\* One whole /api/tap request of chat_id carrying nonce.
ApiTap(chat_id, nonce) ==
  /\ UNCHANGED <<now, registered, th, start>>
  /\ IF chat_id \notin registered
     THEN /\ ret' = Fail("tap", chat_id, nonce, "Not registered")
          /\ UNCHANGED <<store, admission, history>>
     ELSE
     LET gate == can_tap_now(rate_windows[chat_id], now) IN
     /\ rate_windows' = [rate_windows EXCEPT ![chat_id] = gate.dq]
     /\ IF ~gate.ok
        THEN /\ ret' = Fail("tap", chat_id, nonce, "Rate limited")
             /\ last_limited' = [last_limited EXCEPT ![chat_id] = now]
             /\ UNCHANGED <<store, recent_nonces, passed, last_pass>>
        ELSE
        /\ passed' = [passed EXCEPT ![chat_id] = Append(@, now)]
        /\ last_pass' = [last_pass EXCEPT ![chat_id] = now]
        /\ UNCHANGED last_limited
        /\ IF BadNonce(nonce)
           THEN /\ ret' = Fail("tap", chat_id, nonce, "Bad nonce")
                /\ UNCHANGED <<store, recent_nonces>>
           ELSE IF nonce \in recent_nonces[chat_id]
           THEN /\ ret' = Fail("tap", chat_id, nonce, "Replay blocked")
                /\ UNCHANGED <<store, recent_nonces>>
           ELSE
           \E kept \in clean_old_nonces(recent_nonces[chat_id] \cup {nonce}) :
           LET
               gusers1 == get_game_user(game_users, chat_id, now)
               gu == gusers1[chat_id]
               ce == compute_energy(gu, now)
           IN
           /\ recent_nonces' = [recent_nonces EXCEPT ![chat_id] = kept]
           /\ IF ce.energy < 1
              THEN /\ ret' = Resp("tap", chat_id, nonce, FALSE, "No energy", gu.coins,
                                  ce.energy, OrDefault(gu.max_energy, DEFAULT_MAX_ENERGY),
                                  NONE, NONE)
                   /\ game_users' = gusers1
                   /\ UNCHANGED game_taps
              ELSE
              LET mult == boost_multiplier(gu, now)
                  delta == 1 * mult
                  gusers2 == add_tap_coins(gusers1, chat_id, delta, now)
                  gusers3 == update_game_user_fields(gusers2, chat_id,
                                 tap_energy_fields(ce.energy, ce.last))
                  su == streak_update(gu, TRUE, now)
                  gusers4 == update_game_user_fields(gusers3, chat_id,
                                 [daily_streak |-> su.streak, last_streak_at |-> su.date])
                  gu2 == gusers4[chat_id]
                  ce2 == compute_energy(gu2, now)
              IN
              /\ game_taps' = Append(game_taps, TapRow(chat_id, now, delta, nonce))
              /\ game_users' = gusers4
              /\ ret' = Resp("tap", chat_id, nonce, TRUE, "", gu2.coins, ce2.energy,
                             OrDefault(gu2.max_energy, DEFAULT_MAX_ENERGY), NONE, NONE)

\* ------------------------------------------------------------ api_state
\* the table after one /api/state request of a registered chat_id at time t
api_state_store(gusers, chat_id, t) ==
  LET gusers1 == get_game_user(gusers, chat_id, t)
      ce == compute_energy(gusers1[chat_id], t)
  IN  update_game_user_fields(gusers1, chat_id, state_energy_fields(ce.energy, ce.last))

\* One whole /api/state request of chat_id.
ApiState(chat_id) ==
  /\ UNCHANGED <<now, registered, th, start, game_taps, admission, history>>
  /\ IF chat_id \notin registered
     THEN /\ ret' = Fail("state", chat_id, <<>>, "Not registered")
          /\ UNCHANGED game_users
     ELSE
     LET gu == get_game_user(game_users, chat_id, now)[chat_id]
         ce == compute_energy(gu, now)
     IN
     /\ ret' = Resp("state", chat_id, <<>>, TRUE, "", gu.coins, ce.energy,
                    OrDefault(gu.max_energy, DEFAULT_MAX_ENERGY), gu.daily_streak, NONE)
     /\ game_users' = api_state_store(game_users, chat_id, now)

\* --------------------------------------------------------- activate_boost
\* Mutant: the cost is charged without the test coins < cost.
boost_plan_no_funds_test(gu, boost, t) ==
  LET coins == gu.coins
  IN  IF boost = "multitap"
      THEN [ok |-> TRUE, msg |-> "activated",
            fields |-> [coins |-> coins - MULTITAP_COST,
                        multitap_until |-> t + Minutes(MULTITAP_MINUTES)]]
      ELSE IF boost = "autotap"
      THEN [ok |-> TRUE, msg |-> "activated",
            fields |-> [coins |-> coins - AUTOTAP_COST,
                        autotap_until |-> t + Minutes(AUTOTAP_MINUTES)]]
      ELSE IF boost = "maxenergy"
      THEN [ok |-> TRUE, msg |-> "Max energy increased",
            fields |-> [coins |-> coins - MAXENERGY_COST,
                        max_energy |-> OrDefault(gu.max_energy, DEFAULT_MAX_ENERGY)
                                       + MAXENERGY_STEP]]
      ELSE [ok |-> FALSE, msg |-> "Unknown boost", fields |-> <<>>]

\* Mutant: an active boost is extended by its remaining time.
boost_plan_extend(gu, boost, t) ==
  LET coins == gu.coins
      refused(msg) == [ok |-> FALSE, msg |-> msg, fields |-> <<>>]
  IN  IF boost = "multitap"
      THEN IF coins < MULTITAP_COST THEN refused("Not enough coins")
           ELSE [ok |-> TRUE, msg |-> "activated",
                 fields |-> [coins |-> coins - MULTITAP_COST,
                             multitap_until |-> Max(gu.multitap_until, t)
                                                + Minutes(MULTITAP_MINUTES)]]
      ELSE IF boost = "autotap"
      THEN IF coins < AUTOTAP_COST THEN refused("Not enough coins")
           ELSE [ok |-> TRUE, msg |-> "activated",
                 fields |-> [coins |-> coins - AUTOTAP_COST,
                             autotap_until |-> Max(gu.autotap_until, t)
                                               + Minutes(AUTOTAP_MINUTES)]]
      ELSE IF boost = "maxenergy"
      THEN IF coins < MAXENERGY_COST THEN refused("Not enough coins")
           ELSE [ok |-> TRUE, msg |-> "Max energy increased",
                 fields |-> [coins |-> coins - MAXENERGY_COST,
                             max_energy |-> OrDefault(gu.max_energy, DEFAULT_MAX_ENERGY)
                                            + MAXENERGY_STEP]]
      ELSE refused("Unknown boost")

\* activate_boost, up to its write: from the row gu it has read at time t,
\* the verdict, the message and the fields it is about to update
boost_plan(gu, boost, t) ==
  LET coins == gu.coins
      refused(msg) == [ok |-> FALSE, msg |-> msg, fields |-> <<>>]
  IN  IF boost = "multitap"
      THEN IF coins < MULTITAP_COST THEN refused("Not enough coins")
           ELSE [ok |-> TRUE, msg |-> "activated",
                 fields |-> [coins |-> coins - MULTITAP_COST,
                             multitap_until |-> t + Minutes(MULTITAP_MINUTES)]]
      ELSE IF boost = "autotap"
      THEN IF coins < AUTOTAP_COST THEN refused("Not enough coins")
           ELSE [ok |-> TRUE, msg |-> "activated",
                 fields |-> [coins |-> coins - AUTOTAP_COST,
                             autotap_until |-> t + Minutes(AUTOTAP_MINUTES)]]
      ELSE IF boost = "maxenergy"
      THEN IF coins < MAXENERGY_COST THEN refused("Not enough coins")
           ELSE [ok |-> TRUE, msg |-> "Max energy increased",
                 fields |-> [coins |-> coins - MAXENERGY_COST,
                             max_energy |-> OrDefault(gu.max_energy, DEFAULT_MAX_ENERGY)
                                            + MAXENERGY_STEP]]
      ELSE refused("Unknown boost")

\* activate_boost(chat_id, boost) at time t: the verdict, the message and
\* the table it leaves
activate_boost(gusers, chat_id, boost, t) ==
  LET gusers1 == get_game_user(gusers, chat_id, t)
      plan == boost_plan(gusers1[chat_id], boost, t)
  IN  [ok |-> plan.ok, msg |-> plan.msg,
       gusers |-> IF plan.ok
                  THEN update_game_user_fields(gusers1, chat_id, plan.fields)
                  ELSE gusers1]

\* One whole /api/boost request of chat_id for the boost called name.
ApiBoost(chat_id, name) ==
  /\ UNCHANGED <<now, registered, th, start, game_taps, admission, history>>
  /\ IF chat_id \notin registered
     THEN /\ ret' = Fail("boost", chat_id, <<>>, "Not registered")
          /\ UNCHANGED game_users
     ELSE
     LET r == activate_boost(game_users, chat_id, name, now) IN
     /\ game_users' = r.gusers
     /\ ret' = Resp("boost", chat_id, <<>>, r.ok, IF r.ok THEN "" ELSE r.msg,
                    NONE, NONE, NONE, NONE, NONE)

\* ---------------------------------------------------------------- cmd_me
\* The bot's /me command: get_game_user and compute_energy, nothing written
\* back.  ret keeps both components of compute_energy's result.
CmdMe(chat_id) ==
  /\ UNCHANGED <<now, registered, th, start, game_taps, admission, history>>
  /\ LET gusers1 == get_game_user(game_users, chat_id, now)
         gu == gusers1[chat_id]
         ce == compute_energy(gu, now)
     IN
     /\ game_users' = gusers1
     /\ ret' = Resp("me", chat_id, <<>>, TRUE, "", gu.coins, ce.energy,
                    OrDefault(gu.max_energy, DEFAULT_MAX_ENERGY), gu.daily_streak, ce.last)

\* ----------------------------------------------------------- leaderboard
\* SUM(t.delta) over the rows of chat_id with t.ts >= since
RECURSIVE TapSum(_, _, _)
TapSum(taps, chat_id, since) ==
  IF taps = <<>> THEN 0
  ELSE (IF Head(taps).chat_id = chat_id /\ Head(taps).ts >= since
        THEN Head(taps).delta ELSE 0)
       + TapSum(Tail(taps), chat_id, since)

\* ORDER BY score DESC LIMIT limit over one row per key of scores; rows of
\* equal score come in any order: the result lists the query can return
Ranked(scores, limit) ==
  LET S == DOMAIN scores
      n == Cardinality(S)
      orders == {f \in [1..n -> S] :
                   \A i \in 1..n : \A j \in 1..n :
                     i < j => (f[i] # f[j] /\ scores[f[i]] >= scores[f[j]])}
  IN  {[i \in 1..Min(n, limit) |-> [chat_id |-> f[i], score |-> scores[f[i]]]] :
         f \in orders}

\* Mutant: the windowed query sums every row of the accounts it lists.
leaderboard_unwindowed(gusers, taps, range_, limit, t) ==
  IF range_ = "all"
  THEN Ranked([c \in DOMAIN gusers |-> gusers[c].coins], limit)
  ELSE LET since == IF range_ = "day" THEN t - Days(DAY_WINDOW_DAYS)
                                      ELSE t - Days(WEEK_WINDOW_DAYS)
           S == {taps[i].chat_id : i \in {k \in 1..Len(taps) : taps[k].ts >= since}}
       IN  Ranked([c \in S |-> TapSum(taps, c, 0)], limit)

\* leaderboard(range_, limit) when db_now() = t
leaderboard(gusers, taps, range_, limit, t) ==
  IF range_ = "all"
  THEN Ranked([c \in DOMAIN gusers |-> gusers[c].coins], limit)
  ELSE LET since == IF range_ = "day" THEN t - Days(DAY_WINDOW_DAYS)
                                      ELSE t - Days(WEEK_WINDOW_DAYS)
           S == {taps[i].chat_id : i \in {k \in 1..Len(taps) : taps[k].ts >= since}}
       IN  Ranked([c \in S |-> TapSum(taps, c, since)], limit)

LeaderResp(range_, limit, items) ==
  Resp("leaderboard", 0, <<>>, TRUE, "", NONE, NONE, NONE, NONE, NONE)
  @@ [range |-> range_, limit |-> limit, items |-> items]

\* One leaderboard(range_, limit) query, as api_leaderboard makes with limit 50
Leaderboard(range_, limit) ==
  /\ UNCHANGED <<now, registered, th, start, store, admission, history>>
  /\ \E items \in leaderboard(game_users, game_taps, range_, limit, now) :
       ret' = LeaderResp(range_, limit, items)

\* ------------------------------------------------------------- the clock
\* d ticks pass.  The history of rate-gate passes keeps the last window.
RECURSIVE KeepSince(_, _)
KeepSince(q, t) ==
  IF q # <<>> /\ Head(q) < t THEN KeepSince(Tail(q), t) ELSE q

AdvanceClock(d, horizon) ==
  /\ d > 0
  /\ now + d <= horizon
  /\ now' = now + d
  /\ passed' = [c \in Accounts |-> KeepSince(passed[c], now' - Sec(RATE_WINDOW_SEC))]
  /\ UNCHANGED <<registered, store, admission, ret, th, last_pass, last_limited, start>>

\* --------------------------------------------------------- specifications
Threads == 1..NumThreads
IdleThread ==
  [pc |-> "idle", op |-> "none", chat_id |-> 0, nonce |-> <<>>,
   gu |-> NewGameUser(0), energy |-> 0, energy_ts |-> NONE, delta |-> 0,
   fields |-> <<>>, resp |-> NoResp]

NoRows == [c \in {} |-> NewGameUser(0)]
OneRow(chat_id, row) == [c \in {chat_id} |-> row]

\* a process that has just started: empty admission dictionaries
ColdStart ==
  /\ rate_windows = [c \in Accounts |-> <<>>]
  /\ recent_nonces = [c \in Accounts |-> {}]
  /\ ret = NoResp
  /\ th = [t \in Threads |-> IdleThread]
  /\ passed = [c \in Accounts |-> <<>>]
  /\ last_pass = [c \in Accounts |-> NONE]
  /\ last_limited = [c \in Accounts |-> NONE]
  /\ start = game_users

\* --- SpecRegen: compute_energy on stored rows, at any reading of the clock
RegenRows ==
  {[NewGameUser(c) EXCEPT !.energy = e, !.max_energy = m, !.regen_rate_seconds = r] :
     c \in 0..Sec(MaxRegenTime), e \in {0, 10, 499, 500}, m \in {500, 600}, r \in {1, 3}}

InitRegen ==
  /\ now \in 0..Sec(MaxRegenTime)
  /\ registered = {1}
  /\ game_users \in {OneRow(1, row) : row \in RegenRows}
  /\ game_taps = <<>>
  /\ ColdStart

NextRegen == \E c \in DOMAIN game_users : CmdMe(c)

SpecRegen == InitRegen /\ [][NextRegen]_vars

\* --- Spec: whole requests, one at a time, under a non-decreasing clock
\* rows a database can hold when the process starts at time 0
InitRows ==
  {[NewGameUser(0) EXCEPT !.energy = e, !.coins = kb[1],
                          !.multitap_until = kb[2], !.autotap_until = kb[3],
                          !.daily_streak = IF e < DEFAULT_ENERGY THEN 1 ELSE 0,
                          !.last_streak_at = IF e < DEFAULT_ENERGY THEN 0 ELSE NONE,
                          !.last_tap_at = IF e < DEFAULT_ENERGY THEN 0 ELSE NONE] :
     e \in {0, 1, DEFAULT_ENERGY},
     kb \in {<<0, NONE, NONE>>, <<3500, NONE, NONE>>, <<0, Sec(2), Sec(3)>>}}

Init ==
  /\ now = 0
  /\ registered = {1}
  /\ game_users \in {NoRows} \cup {OneRow(1, row) : row \in InitRows}
  /\ game_taps = <<>>
  /\ ColdStart

LongNonce == [i \in 1..(NONCE_MAX_LEN + 1) |-> 1]
TapNonces == {<<>>, <<1>>, <<2>>}
Jumps == {Sec(RATE_WINDOW_SEC) + 1, Sec(DEFAULT_REGEN_RATE)}

\* requests arrive in bursts of at most MaxBurst taps per window
BurstOk(chat_id) == Len(EvictOld(rate_windows[chat_id], now)) < MaxBurst

Next ==
  \/ \E c \in registered, n \in TapNonces : BurstOk(c) /\ ApiTap(c, n)
  \/ \E c \in Accounts : ApiState(c)
  \/ \E c \in registered, name \in BoostNames : ApiBoost(c, name)
  \/ \E d \in Jumps : AdvanceClock(d, Sec(MaxTime))

Spec == Init /\ [][Next]_vars

\* --- SpecRate: taps of one account against the rate gate, tick by tick,
\* until one tick after the first rate window has passed
InitRate ==
  /\ now = 0
  /\ registered = {1}
  /\ game_users = OneRow(1, NewGameUser(0))
  /\ game_taps = <<>>
  /\ ColdStart

RateNonces == {<<>>, <<1>>}

NextRate ==
  \/ \E n \in RateNonces : ApiTap(1, n)
  \/ AdvanceClock(1, Sec(RATE_WINDOW_SEC) + 1)

SpecRate == InitRate /\ [][NextRate]_vars

\* --- SpecReplay: one client that first sends fresh nonces as fast as the
\* rate gate allows (and, against a full window, its first nonce again)
\* until NONCE_CACHE_LIMIT taps were accepted, and from then
\* on sends, in bursts of at most MaxBurst, a fresh nonce, the nonce it sent
\* last, or its first nonce
InitReplay ==
  /\ now = 0
  /\ registered = {1}
  /\ game_users = NoRows
  /\ game_taps = <<>>
  /\ ColdStart

FreshNonce == <<Len(game_taps) + 1>>
ReplayNonces == {FreshNonce, <<1>>} \cup (IF ret.op = "tap" THEN {ret.nonce} ELSE {})
ReplayPhase == Len(game_taps) >= NONCE_CACHE_LIMIT
WindowFull(chat_id) == Len(EvictOld(rate_windows[chat_id], now)) >= MAX_TAPS_PER_SEC
ReplayJump == Sec(RATE_WINDOW_SEC) + 1

NextReplay ==
  \/ ~ReplayPhase /\ ~WindowFull(1) /\ ApiTap(1, FreshNonce)
  \/ ~ReplayPhase /\ WindowFull(1) /\ ApiTap(1, <<1>>)
  \/ ReplayPhase /\ BurstOk(1) /\ \E n \in ReplayNonces : ApiTap(1, n)
  \/ (ReplayPhase \/ WindowFull(1)) /\ AdvanceClock(ReplayJump, MaxReplayWindows * ReplayJump)

SpecReplay == InitReplay /\ [][NextReplay]_vars

\* --- SpecDays: two registered accounts tapping over several days, each
\* tap with a nonce never used before, and leaderboard queries in between
StreakRow(streak) ==
  [NewGameUser(0) EXCEPT !.energy = DEFAULT_ENERGY - 1, !.coins = streak,
                         !.daily_streak = streak, !.last_streak_at = 0,
                         !.last_tap_at = 0]

DayRows ==
  [c \in Accounts |->
     IF c = 1 THEN [StreakRow(4) EXCEPT !.multitap_until = Minutes(MULTITAP_MINUTES)]
     ELSE StreakRow(2)]

InitDays ==
  /\ now = 0
  /\ registered = Accounts
  /\ game_users \in {DayRows, OneRow(1, DayRows[1])}
  /\ game_taps = <<>>
  /\ ColdStart

Ranges == {"all", "day", "week"}
Limits == {1, API_LEADERBOARD_LIMIT}

NextDays ==
  \/ \E c \in Accounts : Len(game_taps) < MaxDayTaps /\ BurstOk(c) /\ ApiTap(c, FreshNonce)
  \/ \E r \in Ranges, l \in Limits : Leaderboard(r, l)
  \/ AdvanceClock(Days(1), Days(MaxDays))

SpecDays == InitDays /\ [][NextDays]_vars

\* --- SpecIso: account 1 repeats one tap until the rate gate refuses it,
\* while account 2 taps in bursts of at most MaxBurst, at one instant
InitIso ==
  /\ now = 0
  /\ registered = Accounts
  /\ game_users \in {NoRows, DayRows}
  /\ game_taps = <<>>
  /\ ColdStart

IsoNonces == {<<1>>, <<2>>}

NextIso ==
  \/ last_limited[1] = NONE /\ ApiTap(1, <<1>>)
  \/ \E n \in IsoNonces : BurstOk(2) /\ ApiTap(2, n)

SpecIso == InitIso /\ [][NextIso]_vars

\* --- SpecConc: requests of one account served by concurrent threads
\* (flask_app.run(threaded=True)); a step is one access to the store or to
\* an admission dictionary, with the computation that follows it.  The
\* connection is in autocommit mode: every statement is its own transaction.
Finish(t, resp) == [th EXCEPT ![t].pc = "done", ![t].resp = resp]

\* api_tap up to can_tap_now
TapGate(t, chat_id, nonce) ==
  /\ th[t].pc = "idle"
  /\ UNCHANGED <<now, registered, store, recent_nonces, ret, start>>
  /\ LET me == [th[t] EXCEPT !.op = "tap", !.chat_id = chat_id, !.nonce = nonce] IN
     IF chat_id \notin registered
     THEN /\ th' = [th EXCEPT ![t] = [me EXCEPT !.pc = "done",
                       !.resp = Fail("tap", chat_id, nonce, "Not registered")]]
          /\ UNCHANGED <<rate_windows, history>>
     ELSE
     LET gate == can_tap_now(rate_windows[chat_id], now) IN
     /\ rate_windows' = [rate_windows EXCEPT ![chat_id] = gate.dq]
     /\ IF ~gate.ok
        THEN /\ th' = [th EXCEPT ![t] = [me EXCEPT !.pc = "done",
                          !.resp = Fail("tap", chat_id, nonce, "Rate limited")]]
             /\ last_limited' = [last_limited EXCEPT ![chat_id] = now]
             /\ UNCHANGED <<passed, last_pass>>
        ELSE /\ th' = [th EXCEPT ![t] = [me EXCEPT !.pc = "nonce_check"]]
             /\ passed' = [passed EXCEPT ![chat_id] = Append(@, now)]
             /\ last_pass' = [last_pass EXCEPT ![chat_id] = now]
             /\ UNCHANGED last_limited

\* api_tap: the nonce's syntax and its membership in the replay cache
TapNonceCheck(t) ==
  /\ th[t].pc = "nonce_check"
  /\ UNCHANGED <<now, registered, store, admission, ret, history, start>>
  /\ LET c == th[t].chat_id
         n == th[t].nonce
     IN  IF BadNonce(n)
         THEN th' = Finish(t, Fail("tap", c, n, "Bad nonce"))
         ELSE IF n \in recent_nonces[c]
         THEN th' = Finish(t, Fail("tap", c, n, "Replay blocked"))
         ELSE th' = [th EXCEPT ![t].pc = "nonce_add"]

\* api_tap: _recent_nonces[chat_id].add(nonce); _clean_old_nonces(chat_id)
TapNonceAdd(t) ==
  /\ th[t].pc = "nonce_add"
  /\ UNCHANGED <<now, registered, store, rate_windows, ret, history, start>>
  /\ \E kept \in clean_old_nonces(recent_nonces[th[t].chat_id] \cup {th[t].nonce}) :
       recent_nonces' = [recent_nonces EXCEPT ![th[t].chat_id] = kept]
  /\ th' = [th EXCEPT ![t].pc = "read"]

\* api_tap: gu = get_game_user(chat_id), then compute_energy, the energy
\* test and boost_multiplier on the row read
TapRead(t) ==
  /\ th[t].pc = "read"
  /\ UNCHANGED <<now, registered, game_taps, admission, ret, history, start>>
  /\ LET c == th[t].chat_id
         gusers1 == get_game_user(game_users, c, now)
         gu == gusers1[c]
         ce == compute_energy(gu, now)
     IN  /\ game_users' = gusers1
         /\ IF ce.energy < 1
            THEN th' = Finish(t, Resp("tap", c, th[t].nonce, FALSE, "No energy", gu.coins,
                                      ce.energy, OrDefault(gu.max_energy, DEFAULT_MAX_ENERGY),
                                      NONE, NONE))
            ELSE th' = [th EXCEPT ![t].pc = "insert", ![t].gu = gu,
                                  ![t].energy = ce.energy, ![t].energy_ts = ce.last,
                                  ![t].delta = 1 * boost_multiplier(gu, now)]

\* add_tap: INSERT INTO game_taps
TapInsert(t) ==
  /\ th[t].pc = "insert"
  /\ UNCHANGED <<now, registered, game_users, admission, ret, history, start>>
  /\ game_taps' = Append(game_taps, TapRow(th[t].chat_id, now, th[t].delta, th[t].nonce))
  /\ th' = [th EXCEPT ![t].pc = "coins"]

\* add_tap: UPDATE game_users SET coins = COALESCE(coins,0) + delta
TapCoins(t) ==
  /\ th[t].pc = "coins"
  /\ UNCHANGED <<now, registered, game_taps, admission, ret, history, start>>
  /\ game_users' = add_tap_coins(game_users, th[t].chat_id, th[t].delta, now)
  /\ th' = [th EXCEPT ![t].pc = "energy"]

\* api_tap: update_game_user_fields(energy - 1, energy_ts)
TapEnergy(t) ==
  /\ th[t].pc = "energy"
  /\ UNCHANGED <<now, registered, game_taps, admission, ret, history, start>>
  /\ game_users' = update_game_user_fields(game_users, th[t].chat_id,
                       tap_energy_fields(th[t].energy, th[t].energy_ts))
  /\ th' = [th EXCEPT ![t].pc = "streak"]

\* api_tap: streak_update on the row read, update_game_user_fields
TapStreak(t) ==
  /\ th[t].pc = "streak"
  /\ UNCHANGED <<now, registered, game_taps, admission, ret, history, start>>
  /\ LET su == streak_update(th[t].gu, TRUE, now) IN
     game_users' = update_game_user_fields(game_users, th[t].chat_id,
                       [daily_streak |-> su.streak, last_streak_at |-> su.date])
  /\ th' = [th EXCEPT ![t].pc = "reread"]

\* api_tap: gu2 = get_game_user(chat_id), compute_energy, the answer
TapReread(t) ==
  /\ th[t].pc = "reread"
  /\ UNCHANGED <<now, registered, game_taps, admission, ret, history, start>>
  /\ LET c == th[t].chat_id
         gusers1 == get_game_user(game_users, c, now)
         gu2 == gusers1[c]
         ce2 == compute_energy(gu2, now)
     IN  /\ game_users' = gusers1
         /\ th' = Finish(t, Resp("tap", c, th[t].nonce, TRUE, "", gu2.coins, ce2.energy,
                                 OrDefault(gu2.max_energy, DEFAULT_MAX_ENERGY), NONE, NONE))

\* api_state: gu = get_game_user(chat_id), compute_energy
StateRead(t, chat_id) ==
  /\ th[t].pc = "idle"
  /\ UNCHANGED <<now, registered, game_taps, admission, ret, history, start>>
  /\ LET me == [th[t] EXCEPT !.op = "state", !.chat_id = chat_id] IN
     IF chat_id \notin registered
     THEN /\ th' = [th EXCEPT ![t] = [me EXCEPT !.pc = "done",
                       !.resp = Fail("state", chat_id, <<>>, "Not registered")]]
          /\ UNCHANGED game_users
     ELSE
     LET gusers1 == get_game_user(game_users, chat_id, now)
         gu == gusers1[chat_id]
         ce == compute_energy(gu, now)
     IN  /\ game_users' = gusers1
         /\ th' = [th EXCEPT ![t] = [me EXCEPT !.pc = "s_write", !.gu = gu,
                       !.energy = ce.energy, !.energy_ts = ce.last,
                       !.resp = Resp("state", chat_id, <<>>, TRUE, "", gu.coins, ce.energy,
                                     OrDefault(gu.max_energy, DEFAULT_MAX_ENERGY),
                                     gu.daily_streak, NONE)]]

\* api_state: update_game_user_fields(energy, energy_ts)
StateWrite(t) ==
  /\ th[t].pc = "s_write"
  /\ UNCHANGED <<now, registered, game_taps, admission, ret, history, start>>
  /\ game_users' = update_game_user_fields(game_users, th[t].chat_id,
                       state_energy_fields(th[t].energy, th[t].energy_ts))
  /\ th' = [th EXCEPT ![t].pc = "done"]

\* activate_boost: gu = get_game_user(chat_id), the cost test
BoostRead(t, chat_id, name) ==
  /\ th[t].pc = "idle"
  /\ UNCHANGED <<now, registered, game_taps, admission, ret, history, start>>
  /\ LET me == [th[t] EXCEPT !.op = "boost", !.chat_id = chat_id] IN
     IF chat_id \notin registered
     THEN /\ th' = [th EXCEPT ![t] = [me EXCEPT !.pc = "done",
                       !.resp = Fail("boost", chat_id, <<>>, "Not registered")]]
          /\ UNCHANGED game_users
     ELSE
     LET gusers1 == get_game_user(game_users, chat_id, now)
         gu == gusers1[chat_id]
         plan == boost_plan(gu, name, now)
     IN  /\ game_users' = gusers1
         /\ IF plan.ok
            THEN th' = [th EXCEPT ![t] = [me EXCEPT !.pc = "b_write", !.gu = gu,
                           !.fields = plan.fields]]
            ELSE th' = [th EXCEPT ![t] = [me EXCEPT !.pc = "done", !.gu = gu,
                           !.resp = Resp("boost", chat_id, <<>>, FALSE, plan.msg,
                                         NONE, NONE, NONE, NONE, NONE)]]

\* activate_boost: update_game_user_fields(coins - cost, ...)
BoostWrite(t) ==
  /\ th[t].pc = "b_write"
  /\ UNCHANGED <<now, registered, game_taps, admission, ret, history, start>>
  /\ game_users' = update_game_user_fields(game_users, th[t].chat_id, th[t].fields)
  /\ th' = Finish(t, Resp("boost", th[t].chat_id, <<>>, TRUE, "",
                          NONE, NONE, NONE, NONE, NONE))

\* the steps that read or write the tables
StorePcs == {"read", "insert", "coins", "energy", "streak", "reread",
             "s_write", "b_write"}

ConcRows ==
  {[NewGameUser(0) EXCEPT !.energy = e, !.coins = kb[1],
                          !.multitap_until = kb[2], !.autotap_until = kb[3],
                          !.daily_streak = IF e < DEFAULT_ENERGY THEN 1 ELSE 0,
                          !.last_streak_at = IF e < DEFAULT_ENERGY THEN 0 ELSE NONE,
                          !.last_tap_at = IF e < DEFAULT_ENERGY THEN 0 ELSE NONE] :
     e \in {1, 2, DEFAULT_ENERGY},
     kb \in {<<0, NONE, NONE>>, <<3500, NONE, NONE>>, <<0, Sec(2), NONE>>}}

InitConc ==
  /\ now = 0
  /\ registered = {1}
  /\ game_users \in {OneRow(1, row) : row \in ConcRows}
  /\ game_taps = <<>>
  /\ ColdStart

ConcNonces == {<<1>>, <<2>>}
ConcBoosts == {"multitap", "maxenergy"}

NextConc ==
  \E t \in Threads :
    \/ \E n \in ConcNonces : TapGate(t, 1, n)
    \/ TapNonceCheck(t)
    \/ TapNonceAdd(t)
    \/ TapRead(t)
    \/ TapInsert(t)
    \/ TapCoins(t)
    \/ TapEnergy(t)
    \/ TapStreak(t)
    \/ TapReread(t)
    \/ StateRead(t, 1)
    \/ StateWrite(t)
    \/ \E name \in ConcBoosts : BoostRead(t, 1, name)
    \/ BoostWrite(t)

SpecConc == InitConc /\ [][NextConc]_vars

\* --- SpecUpgrade: as SpecConc, with the server starting a thread for the
\* next request once one has been answered; permanent upgrades, get_state
\* and at most MaxUpgradeTaps taps of one account that can pay two upgrades
Recycle(t) ==
  /\ th[t].pc = "done"
  /\ th' = [th EXCEPT ![t] = IdleThread]
  /\ UNCHANGED <<now, registered, store, admission, ret, history, start>>

InitUpgrade ==
  /\ now = 0
  /\ registered = {1}
  /\ game_users = OneRow(1, [NewGameUser(0) EXCEPT !.coins = 2 * MAXENERGY_COST])
  /\ game_taps = <<>>
  /\ ColdStart

TapsInFlight ==
  Cardinality({t \in Threads : th[t].pc \in {"nonce_check", "nonce_add", "read", "insert"}})

NextUpgrade ==
  \E t \in Threads :
    \/ Len(game_taps) + TapsInFlight < MaxUpgradeTaps /\ TapGate(t, 1, FreshNonce)
    \/ TapNonceCheck(t)
    \/ TapNonceAdd(t)
    \/ TapRead(t)
    \/ TapInsert(t)
    \/ TapCoins(t)
    \/ TapEnergy(t)
    \/ TapStreak(t)
    \/ TapReread(t)
    \/ StateRead(t, 1)
    \/ StateWrite(t)
    \/ BoostRead(t, 1, "maxenergy")
    \/ BoostWrite(t)
    \/ Recycle(t)

SpecUpgrade == InitUpgrade /\ [][NextUpgrade]_vars

\* /api/state requests of one account at any times.  The account's row
\* exists; its checkpoint is less than one second after the start, its energy
\* at, next to or far from the cap, its rate one or three seconds.
PathRows ==
  {[NewGameUser(c) EXCEPT !.energy = e, !.max_energy = m, !.regen_rate_seconds = r] :
     c \in 0..(TicksPerSec - 1), e \in {0, 499, 500}, m \in {500, 600}, r \in {1, 3}}

InitPath ==
  /\ now = 0
  /\ registered = {1}
  /\ game_users \in {OneRow(1, row) : row \in PathRows}
  /\ game_taps = <<>>
  /\ ColdStart

NextPath ==
  \/ ApiState(1)
  \/ AdvanceClock(1, Sec(MaxRegenTime))

SpecPath == InitPath /\ [][NextPath]_vars

\* can_tap_now statement by statement, for requests served by concurrent
\* threads within one instant: the eviction loop, the length test and the
\* append are separate steps on the shared deque of the account.
\* api_tap up to the call of can_tap_now
GateStart(t, chat_id, nonce) ==
  /\ th[t].pc = "idle"
  /\ UNCHANGED <<now, registered, store, admission, ret, history, start>>
  /\ LET me == [th[t] EXCEPT !.op = "tap", !.chat_id = chat_id, !.nonce = nonce] IN
     IF chat_id \notin registered
     THEN th' = [th EXCEPT ![t] = [me EXCEPT !.pc = "done",
                    !.resp = Fail("tap", chat_id, nonce, "Not registered")]]
     ELSE th' = [th EXCEPT ![t] = [me EXCEPT !.pc = "gate_evict"]]

\* while dq and now - dq[0] > RATE_WINDOW_SEC: dq.popleft()
GateEvict(t) ==
  /\ th[t].pc = "gate_evict"
  /\ UNCHANGED <<now, registered, store, recent_nonces, ret, history, start>>
  /\ rate_windows' = [rate_windows EXCEPT
                        ![th[t].chat_id] = EvictOld(rate_windows[th[t].chat_id], now)]
  /\ th' = [th EXCEPT ![t].pc = "gate_check"]

\* if len(dq) >= MAX_TAPS_PER_SEC: return False
GateCheck(t) ==
  /\ th[t].pc = "gate_check"
  /\ UNCHANGED <<now, registered, store, admission, ret, passed, last_pass, start>>
  /\ IF Len(rate_windows[th[t].chat_id]) >= MAX_TAPS_PER_SEC
     THEN /\ th' = Finish(t, Fail("tap", th[t].chat_id, th[t].nonce, "Rate limited"))
          /\ last_limited' = [last_limited EXCEPT ![th[t].chat_id] = now]
     ELSE /\ th' = [th EXCEPT ![t].pc = "gate_append"]
          /\ UNCHANGED last_limited

\* dq.append(now); return True
GateAppend(t) ==
  /\ th[t].pc = "gate_append"
  /\ UNCHANGED <<now, registered, store, recent_nonces, ret, last_limited, start>>
  /\ rate_windows' = [rate_windows EXCEPT
                        ![th[t].chat_id] = DequeAppend(rate_windows[th[t].chat_id], now)]
  /\ passed' = [passed EXCEPT ![th[t].chat_id] = Append(@, now)]
  /\ last_pass' = [last_pass EXCEPT ![th[t].chat_id] = now]
  /\ th' = [th EXCEPT ![t].pc = "nonce_check"]

InitGate ==
  /\ now = 0
  /\ registered = {1}
  /\ game_users = OneRow(1, NewGameUser(0))
  /\ game_taps = <<>>
  /\ ColdStart

\* Taps served one after the other fill the window up to one free slot; the
\* threads then serve one tap each, every tap with a nonce of its own.
GateFilled == Len(rate_windows[1]) >= MAX_TAPS_PER_SEC - 1
GateNonce(t) == <<MAX_TAPS_PER_SEC + t>>

NextGate ==
  \/ ~GateFilled /\ ApiTap(1, FreshNonce)
  \/ \E t \in Threads :
       \/ GateFilled /\ GateStart(t, 1, GateNonce(t))
       \/ GateEvict(t)
       \/ GateCheck(t)
       \/ GateAppend(t)
       \/ TapNonceCheck(t)
       \/ TapNonceAdd(t)
       \/ TapRead(t)
       \/ TapInsert(t)
       \/ TapCoins(t)
       \/ TapEnergy(t)
       \/ TapStreak(t)
       \/ TapReread(t)

SpecGate == InitGate /\ [][NextGate]_vars

\* ================================================================= claims

\* floor(x / y) for y > 0
FloorDiv(x, y) == x \div y

\* the row compute_energy was given in SpecRegen, where nothing is written
RegenRow == game_users[ret.chat_id]

\* C3: regeneration formula.  For stored energy e, max_energy m, rate r >= 1
\* and checkpoint c, at a time now >= c, compute_energy returns
\* min(m, e + g) with g = floor((now - c) / r), and the checkpoint c + g*r
\* when g > 0, c when g = 0; e = 10, m = 500, r = 3, now = c + 7 s gives
\* energy 12 and checkpoint c + 6 s.
C3_RegenFormula ==
  ret.op = "me" =>
    LET e == RegenRow.energy
        m == RegenRow.max_energy
        r == RegenRow.regen_rate_seconds
        c == RegenRow.energy_updated_at
        g == FloorDiv(now - c, r * TicksPerSec)
    IN  (now >= c /\ r >= 1) =>
          /\ ret.energy = Min(m, e + g)
          /\ ret.energy_ts = IF g > 0 THEN c + g * r * TicksPerSec ELSE c
          /\ (e = 10 /\ m = 500 /\ r = 3 /\ now = c + 7 * TicksPerSec) =>
               (ret.energy = 12 /\ ret.energy_ts = c + 6 * TicksPerSec)

C3_Witness ==
  /\ ret.op = "me"
  /\ RegenRow.energy = 10 /\ RegenRow.max_energy = 500
  /\ RegenRow.regen_rate_seconds = 3
  /\ now = RegenRow.energy_updated_at + 7 * TicksPerSec
  /\ ret.energy = 12
  /\ ret.energy_ts = RegenRow.energy_updated_at + 6 * TicksPerSec

\* C4: regeneration never decrements energy.  For every stored row with
\* energy <= max_energy and every now, also one earlier than the checkpoint,
\* compute_energy returns at least the stored energy, and returns the
\* checkpoint unchanged when no full interval has elapsed.
C4_NeverDecrements ==
  ret.op = "me" =>
    LET e == RegenRow.energy
        m == RegenRow.max_energy
        r == RegenRow.regen_rate_seconds
        c == RegenRow.energy_updated_at
    IN  /\ e <= m => ret.energy >= e
        /\ now - c < r * TicksPerSec => ret.energy_ts = c

\* C5: idempotent recomputation.  In every reachable state, a get_state
\* of a registered account followed by a second get_state at the same time
\* leaves the table as the first one left it: the stored row equals what
\* compute_energy returns for it, and neither call changes coins.
C5_StateIdempotent ==
  \A c \in registered :
    LET g1 == api_state_store(game_users, c, now)
        g2 == api_state_store(g1, c, now)
    IN  /\ g2 = g1
        /\ compute_energy(g1[c], now).energy = g1[c].energy
        /\ compute_energy(g1[c], now).last = g1[c].energy_updated_at
        /\ c \in DOMAIN game_users => g1[c].coins = game_users[c].coins

C5_Witness ==
  /\ ret.op = "state" /\ ret.ok
  /\ ret.chat_id \in DOMAIN game_users
  /\ game_users[ret.chat_id].energy_updated_at > 0
  /\ game_users[ret.chat_id].energy = ret.energy
  /\ ret.energy < ret.max_energy

\* C6: energy bound.  Under one-at-a-time requests and a non-decreasing
\* clock every stored row has 0 <= energy <= max_energy, and so has every
\* energy returned by get_state or tap.
C6_EnergyBound ==
  /\ \A c \in DOMAIN game_users :
       0 <= game_users[c].energy /\ game_users[c].energy <= game_users[c].max_energy
  /\ (ret.op \in {"state", "tap"} /\ (ret.ok \/ ret.error = "No energy")) =>
       (0 <= ret.energy /\ ret.energy <= ret.max_energy)

C6_Witness ==
  /\ ret.op = "state" /\ ret.ok
  /\ ret.chat_id \in DOMAIN game_users
  /\ game_users[ret.chat_id].energy_updated_at > 0
  /\ game_users[ret.chat_id].energy = game_users[ret.chat_id].max_energy
  /\ ret.energy = ret.max_energy

\* C10: effect of an accepted tap, requests one at a time.  Exactly one row
\* (account, delta, nonce) is appended to game_taps, delta is the multiplier
\* in force at that instant, coins rises by delta, the stored energy is the
\* recomputed available energy minus 1, the stored checkpoint is the
\* regenerator's new checkpoint, and max_energy and both boost expiries
\* keep their values.
AcceptedTapEffect(c, n) ==
  LET gu == get_game_user(game_users, c, now)[c]
      boosted == \/ (gu.multitap_until # NONE /\ gu.multitap_until > now)
                 \/ (gu.autotap_until # NONE /\ gu.autotap_until > now)
      delta == IF boosted THEN 2 ELSE 1
      g == FloorDiv(now - gu.energy_updated_at, gu.regen_rate_seconds * TicksPerSec)
      available == Min(gu.max_energy, gu.energy + g)
      after == game_users'[c]
  IN  /\ game_taps' = Append(game_taps, [chat_id |-> c, ts |-> now,
                                         delta |-> delta, nonce |-> n])
      /\ after.coins = gu.coins + delta
      /\ after.energy = available - 1
      /\ after.energy_updated_at = gu.energy_updated_at
                                   + g * gu.regen_rate_seconds * TicksPerSec
      /\ after.max_energy = gu.max_energy
      /\ after.multitap_until = gu.multitap_until
      /\ after.autotap_until = gu.autotap_until

C10_AcceptedTap ==
  [][\A c \in registered, n \in TapNonces :
       (ApiTap(c, n) /\ ret'.ok) => AcceptedTapEffect(c, n)]_vars

C10_Witness ==
  /\ ret.op = "tap" /\ ret.ok
  /\ game_taps # <<>>
  /\ game_taps[Len(game_taps)].delta = 2
  /\ game_taps[Len(game_taps)].nonce = ret.nonce
  /\ game_users[ret.chat_id].energy = 0

\* C7: sliding-window rate limit.  passed holds the times, within the last
\* second, at which the account's attempts passed the rate gate: a tap never
\* leaves more than 20 of them, and a tap arriving while 20 are within the
\* last second is answered "Rate limited" and passes nothing.
C7_RateLimit ==
  [][\A c \in registered, n \in RateNonces :
       ApiTap(c, n) =>
         /\ Len(passed'[c]) <= 20
         /\ Len(passed[c]) = 20 =>
              (ret'.error = "Rate limited" /\ passed'[c] = passed[c])]_vars

C7_Witness ==
  /\ ret.op = "tap" /\ ret.error = "Rate limited"
  /\ Len(passed[1]) = 20
  /\ last_limited[1] = now
  /\ passed[1][1] < now
  /\ passed[1][20] = now

\* C8: rate-limit recovery.  A "Rate limited" attempt leaves the account's
\* rate window without a new entry (entries are only evicted), and a tap
\* arriving more than 1 second after the account's last admitted attempt, or
\* before any, passes the rate gate.
IsSuffix(q, r) == \E k \in 0..Len(r) : q = SubSeq(r, k + 1, Len(r))

C8_Recovery ==
  [][\A c \in registered, n \in RateNonces :
       ApiTap(c, n) =>
         /\ ret'.error = "Rate limited" => IsSuffix(rate_windows'[c], rate_windows[c])
         /\ (last_pass[c] = NONE \/ now - last_pass[c] > 1 * TicksPerSec) =>
              (ret'.error # "Rate limited" /\ last_pass'[c] = now)]_vars

C8_Witness ==
  /\ ret.op = "tap" /\ ret.error # "Rate limited"
  /\ last_pass[1] = now
  /\ last_limited[1] # NONE
  /\ last_limited[1] < now
  /\ rate_windows[1] = <<now>>

\* C9: replay rejection.  When the account's previous tap attempt carried
\* nonce n and passed the replay check, a tap carrying n again that passes
\* the rate gate is answered "Replay blocked" and appends no row to
\* game_taps, however many nonces the cache held.
C9_ReplayRejected ==
  [][(/\ ret.op = "tap" /\ ret.chat_id = 1
      /\ ret.error \in {"", "No energy"}
      /\ ApiTap(1, ret.nonce)
      /\ ret'.error # "Rate limited")
     => (ret'.error = "Replay blocked" /\ game_taps' = game_taps)]_vars

\* C1: no lost update between concurrent taps.  When every request was a
\* tap of account 1 and all have completed, with no regeneration interval
\* elapsed, the stored energy is lower by the number of accepted taps and
\* coins is higher by the sum of their deltas.
RECURSIVE SumDelta(_)
SumDelta(ts) ==
  IF ts = {} THEN 0
  ELSE LET t == CHOOSE x \in ts : TRUE IN th[t].delta + SumDelta(ts \ {t})

AcceptedTaps == {t \in Threads : th[t].op = "tap" /\ th[t].pc = "done" /\ th[t].resp.ok}

C1_NoLostUpdate ==
  (/\ \A t \in Threads : th[t].pc = "done" /\ th[t].op = "tap" /\ th[t].chat_id = 1
   /\ now - start[1].energy_updated_at < start[1].regen_rate_seconds * TicksPerSec)
  => /\ game_users[1].energy = start[1].energy - Cardinality(AcceptedTaps)
     /\ game_users[1].coins = start[1].coins + SumDelta(AcceptedTaps)

\* C2: an accepted tap is one atomic transition.  While a tap has inserted
\* its game_taps row and credited coins but not yet written its energy or
\* its streak, no other request of the same account reads or writes the
\* tables.
TapHalfDone(t) == th[t].op = "tap" /\ th[t].pc \in {"energy", "streak"}

StoreStep(u) ==
  /\ th'[u] # th[u]
  /\ \/ th[u].pc \in StorePcs
     \/ (th[u].pc = "idle" /\ th'[u].op \in {"state", "boost"})

C2_AtomicTap ==
  [][\A t \in Threads : \A u \in Threads \ {t} :
       (TapHalfDone(t) /\ th'[u].chat_id = th[t].chat_id) => ~StoreStep(u)]_vars

\* C11: no-energy rejection.  A tap of an existing account that passes the
\* rate gate and the nonce checks while the recomputed available energy is
\* below 1 is answered "No energy" with the account's current coins,
\* available energy and max_energy; a tap answered "No energy" appends no row
\* to game_taps and leaves the table game_users as it was.
Available(gu) ==
  Min(gu.max_energy,
      gu.energy + FloorDiv(now - gu.energy_updated_at, gu.regen_rate_seconds * TicksPerSec))

Admitted(error) ==
  error \notin {"Not registered", "Rate limited", "Bad nonce", "Replay blocked"}

C11_NoEnergy ==
  [][\A c \in registered, n \in TapNonces :
       ApiTap(c, n) =>
         /\ (c \in DOMAIN game_users /\ Admitted(ret'.error) /\ Available(game_users[c]) < 1)
              => ret'.error = "No energy"
         /\ ret'.error = "No energy" =>
              /\ c \in DOMAIN game_users
              /\ Available(game_users[c]) < 1
              /\ ret'.coins = game_users[c].coins
              /\ ret'.energy = Available(game_users[c])
              /\ ret'.max_energy = game_users[c].max_energy
              /\ game_taps' = game_taps
              /\ game_users' = game_users]_vars

C11_Witness ==
  /\ ret.op = "tap" /\ ret.error = "No energy"
  /\ ret.chat_id \in DOMAIN game_users
  /\ game_users[ret.chat_id].energy = 0
  /\ ret.energy = 0
  /\ ret.coins = game_users[ret.chat_id].coins
  /\ ret.max_energy = game_users[ret.chat_id].max_energy

\* C12: no partial state mutation on a rejecting path.  A tap answered
\* "Bad nonce", "Replay blocked" or "No energy" leaves both tables and the
\* account's replay cache unchanged, and leaves the account's rate window
\* with its expired entries evicted and no new entry.
C12_NoPartialMutation ==
  [][\A c \in registered, n \in TapNonces :
       (ApiTap(c, n) /\ ret'.error \in {"Bad nonce", "Replay blocked", "No energy"}) =>
         /\ game_users' = game_users
         /\ game_taps' = game_taps
         /\ recent_nonces' = recent_nonces
         /\ rate_windows'[c] = EvictOld(rate_windows[c], now)]_vars

\* C13: effective multiplier.  At every instant the multiplier of a stored
\* row is 2 if multitap_until or autotap_until is strictly later than now and
\* 1 otherwise; no tap was ever credited more than 2; the tap last accepted
\* was credited 2 if a boost of its account was active at its instant (also
\* when both were) and 1 if that instant was at or after every expiry.
BoostActive(gu, t) ==
  \/ (gu.multitap_until # NONE /\ gu.multitap_until > t)
  \/ (gu.autotap_until # NONE /\ gu.autotap_until > t)

LastTap == game_taps[Len(game_taps)]

C13_Multiplier ==
  /\ \A c \in DOMAIN game_users :
       boost_multiplier(game_users[c], now) = IF BoostActive(game_users[c], now) THEN 2 ELSE 1
  /\ \A i \in 1..Len(game_taps) : game_taps[i].delta \in {1, 2}
  /\ (ret.op = "tap" /\ ret.ok) =>
       LastTap.delta = IF BoostActive(game_users[ret.chat_id], LastTap.ts) THEN 2 ELSE 1

C13_Witness ==
  /\ ret.op = "tap" /\ ret.ok
  /\ LastTap.delta = 1
  /\ game_users[ret.chat_id].multitap_until # NONE
  /\ game_users[ret.chat_id].multitap_until < LastTap.ts
  /\ game_users[ret.chat_id].autotap_until = LastTap.ts
  /\ \E i \in 1..Len(game_taps) :
       /\ game_taps[i].delta = 2
       /\ game_users[ret.chat_id].multitap_until > game_taps[i].ts
       /\ game_users[ret.chat_id].autotap_until > game_taps[i].ts

\* C14: boost activation failures do not mutate state.  activate_boost of
\* a known kind with coins < its cost is answered "Not enough coins", and of
\* an unrecognized kind "Unknown boost"; in both cases the account's coins,
\* energy, max_energy, boost expiries and streak keep their values (those
\* of a new account, if it had no row yet).
KnownBoosts == {"multitap", "autotap", "maxenergy"}
Cost(name) == IF name = "multitap" THEN 1000 ELSE IF name = "autotap" THEN 3000 ELSE 2500
RowBefore(c) == IF c \in DOMAIN game_users THEN game_users[c] ELSE NewGameUser(now)

C14_BoostFailure ==
  [][\A c \in registered, name \in BoostNames :
       ApiBoost(c, name) =>
         /\ (name \in KnownBoosts /\ RowBefore(c).coins < Cost(name)) =>
              (~ret'.ok /\ ret'.error = "Not enough coins")
         /\ name \notin KnownBoosts => (~ret'.ok /\ ret'.error = "Unknown boost")
         /\ ~ret'.ok =>
              /\ game_users'[c] = RowBefore(c)
              /\ \A o \in DOMAIN game_users \ {c} : game_users'[o] = game_users[o]
              /\ (name \notin KnownBoosts \/ RowBefore(c).coins < Cost(name))]_vars

C14_Witness ==
  /\ ret.op = "boost" /\ ~ret.ok /\ ret.error = "Not enough coins"
  /\ game_users[ret.chat_id].coins = 1000
  /\ game_users[ret.chat_id].max_energy = 600
  /\ game_users[ret.chat_id].autotap_until = NONE

\* C15: successful time-limited activation, requests one at a time.
\* activate_boost(multitap) with coins >= 1000 succeeds, lowers coins by 1000
\* and sets multitap_until to now + 15 min; activate_boost(autotap) with
\* coins >= 3000 succeeds, lowers coins by 3000 and sets autotap_until to
\* now + 10 min; the expiry of an already active boost is replaced, and the
\* other expiry, energy and max_energy keep their values.
C15_Activation ==
  [][\A c \in registered :
       LET before == RowBefore(c)
           after == game_users'[c]
       IN  /\ (ApiBoost(c, "multitap") /\ before.coins >= 1000) =>
                /\ ret'.ok
                /\ after.coins = before.coins - 1000
                /\ after.multitap_until = now + 15 * 60 * TicksPerSec
                /\ after.autotap_until = before.autotap_until
                /\ after.energy = before.energy
                /\ after.max_energy = before.max_energy
           /\ (ApiBoost(c, "autotap") /\ before.coins >= 3000) =>
                /\ ret'.ok
                /\ after.coins = before.coins - 3000
                /\ after.autotap_until = now + 10 * 60 * TicksPerSec
                /\ after.multitap_until = before.multitap_until
                /\ after.energy = before.energy
                /\ after.max_energy = before.max_energy]_vars

C15_Witness ==
  /\ ret.op = "boost" /\ ret.ok
  /\ now > 0
  /\ game_users[ret.chat_id].coins = start[ret.chat_id].coins - 2000
  /\ game_users[ret.chat_id].multitap_until = now + 15 * 60 * TicksPerSec
  /\ game_users[ret.chat_id].autotap_until = NONE

\* C16: boost cost under concurrency.  Once concurrent activate_boost and
\* tap requests of account 1 have all completed, coins equals the initial
\* coins plus the deltas of the accepted taps minus the costs of the
\* activations that succeeded.
SucceededBoosts == {t \in Threads : th[t].op = "boost" /\ th[t].pc = "done" /\ th[t].resp.ok}

BoostCost(t) ==
  IF "multitap_until" \in DOMAIN th[t].fields THEN 1000
  ELSE IF "autotap_until" \in DOMAIN th[t].fields THEN 3000
  ELSE 2500

RECURSIVE SumCost(_)
SumCost(ts) ==
  IF ts = {} THEN 0
  ELSE LET t == CHOOSE x \in ts : TRUE IN BoostCost(t) + SumCost(ts \ {t})

C16_BoostAtomic ==
  (\A t \in Threads : th[t].pc = "done" /\ th[t].op \in {"tap", "boost"} /\ th[t].chat_id = 1)
  => game_users[1].coins = start[1].coins + SumDelta(AcceptedTaps) - SumCost(SucceededBoosts)

\* C17: streak update rule.  An accepted tap on UTC date d leaves
\* last_streak_at = d and the streak incremented by 1 if the last streak
\* date was d - 1, unchanged if it was d, and 1 otherwise (an older date or
\* none); streak_update with tapped_today false returns the streak unchanged.
C17_StreakRule ==
  [][\A c \in Accounts :
       (ApiTap(c, FreshNonce) /\ ret'.ok) =>
         LET before == RowBefore(c)
             after == game_users'[c]
             d == FloorDiv(now, 86400 * TicksPerSec)
             last == before.last_streak_at
         IN  /\ after.last_streak_at = d
             /\ after.daily_streak =
                  IF last # NONE /\ last = d - 1 THEN before.daily_streak + 1
                  ELSE IF last # NONE /\ last = d THEN before.daily_streak
                  ELSE 1
             /\ streak_update(before, FALSE, now).streak = before.daily_streak]_vars

C17_Witness ==
  /\ Len(game_taps) = 2
  /\ start = DayRows
  /\ game_users[1].daily_streak = 5 /\ game_users[1].last_streak_at = 1
  /\ game_users[2].daily_streak = 1 /\ game_users[2].last_streak_at = 4
  /\ ret.op = "tap" /\ ret.ok /\ ret.chat_id = 2

\* C18: windowed leaderboard.  A day (week) query lists the accounts with
\* at least one game_taps row not older than now - 1 day (now - 7 days), each
\* with the sum of the deltas of exactly those rows, ordered by score
\* descending, cut to the limit; older rows contribute nothing.
InWindow(i, since) == game_taps[i].ts >= since

RECURSIVE WindowScore(_, _, _)
WindowScore(c, since, n) ==
  IF n = 0 THEN 0
  ELSE (IF game_taps[n].chat_id = c /\ InWindow(n, since) THEN game_taps[n].delta ELSE 0)
       + WindowScore(c, since, n - 1)

WindowedRanking(items, days, limit) ==
  LET since == now - days * 86400 * TicksPerSec
      eligible == {c \in Accounts :
                     \E i \in 1..Len(game_taps) :
                       game_taps[i].chat_id = c /\ InWindow(i, since)}
      score(c) == WindowScore(c, since, Len(game_taps))
      listed == {items[i].chat_id : i \in 1..Len(items)}
  IN  /\ Len(items) = Min(Cardinality(eligible), limit)
      /\ Cardinality(listed) = Len(items)
      /\ \A i \in 1..Len(items) :
           /\ items[i].chat_id \in eligible
           /\ items[i].score = score(items[i].chat_id)
           /\ \A j \in 1..Len(items) : i < j => items[i].score >= items[j].score
           /\ \A c \in eligible \ listed : items[i].score >= score(c)

C18_Leaderboard ==
  [][\A l \in Limits :
       /\ Leaderboard("day", l) => WindowedRanking(ret'.items, 1, l)
       /\ Leaderboard("week", l) => WindowedRanking(ret'.items, 7, l)]_vars

C18_Witness ==
  /\ ret.op = "leaderboard" /\ ret.range = "day" /\ ret.limit = 50
  /\ Len(game_taps) = 2
  /\ game_taps[1].chat_id = 1 /\ game_taps[1].delta = 2
  /\ game_taps[1].ts < now - Days(1)
  /\ game_taps[2].chat_id = 2 /\ game_taps[2].ts >= now - Days(1)
  /\ ret.items = <<[chat_id |-> 2, score |-> 1]>>

\* C19: per-account isolation of admission control.  A tap of account a
\* leaves the rate window, the replay cache and the row of every other
\* account as they were; and a tap of an account whose own window holds fewer
\* than 20 passes and whose own cache lacks the nonce is neither "Rate
\* limited" nor "Replay blocked", whatever the other account's window and
\* cache hold.
C19_Isolation ==
  [][\A a \in Accounts, n \in IsoNonces :
       ApiTap(a, n) =>
         /\ \A b \in Accounts \ {a} :
              /\ rate_windows'[b] = rate_windows[b]
              /\ recent_nonces'[b] = recent_nonces[b]
              /\ (b \in DOMAIN game_users') = (b \in DOMAIN game_users)
              /\ b \in DOMAIN game_users => game_users'[b] = game_users[b]
         /\ Len(passed[a]) < 20 => ret'.error # "Rate limited"
         /\ n \notin recent_nonces[a] => ret'.error # "Replay blocked"]_vars

C19_Witness ==
  /\ ret.op = "tap" /\ ret.chat_id = 2 /\ ret.ok /\ ret.nonce = <<1>>
  /\ <<1>> \in recent_nonces[1]
  /\ last_limited[1] = now
  /\ Len(rate_windows[1]) = 20
  /\ last_limited[2] = NONE

\* C20: max_energy only increases.  No step of concurrent tap, get_state
\* and activate_boost requests on one account lowers the stored max_energy
\* (so that, starting at 500, it is at least 500 in every reachable state).
C20_MaxEnergyMonotone ==
  [][\A c \in DOMAIN game_users :
       /\ c \in DOMAIN game_users'
       /\ game_users'[c].max_energy >= game_users[c].max_energy]_vars

\* C21: coins is an unsigned balance.  In every state reached by
\* interleaved tap, get_state and activate_boost requests on one account,
\* every stored coins is >= 0.
C21_CoinsUnsigned ==
  \A c \in DOMAIN game_users : game_users[c].coins >= 0

C21_Witness ==
  /\ start[1].coins = 3500
  /\ game_users[1].coins = 0
  /\ \A t \in Threads : th[t].op = "boost" /\ th[t].pc = "done" /\ th[t].resp.ok

\* C22: the permanent max-energy upgrade is one-time.  An account that
\* started without the upgrade never has max_energy raised by more than one
\* step of 100 nor is charged more than one cost of 2500: after a successful
\* activation a further one neither raises max_energy nor charges coins.
C22_UpgradeOnce ==
  \A c \in DOMAIN start :
    /\ game_users[c].max_energy <= start[c].max_energy + 100
    /\ game_users[c].coins >= start[c].coins - 2500

\* C23: streak history invariant.  For an account that was new when the
\* process started and has since had taps accepted, one at a time, its
\* last_streak_at is the latest UTC date with an accepted tap and its
\* daily_streak is the length of the run of consecutive dates with an
\* accepted tap that ends there; it is >= 1.
TapDates(c) ==
  {FloorDiv(game_taps[i].ts, 86400 * TicksPerSec) :
     i \in {k \in 1..Len(game_taps) : game_taps[k].chat_id = c}}

RECURSIVE RunLength(_, _)
RunLength(dates, d) == IF d \in dates THEN 1 + RunLength(dates, d - 1) ELSE 0

C23_StreakHistory ==
  \A c \in DOMAIN game_users \ DOMAIN start :
    LET dates == TapDates(c) IN
    IF dates = {}
    THEN game_users[c].daily_streak = 0 /\ game_users[c].last_streak_at = NONE
    ELSE /\ \A d \in dates : d <= game_users[c].last_streak_at
         /\ game_users[c].last_streak_at \in dates
         /\ game_users[c].daily_streak = RunLength(dates, game_users[c].last_streak_at)
         /\ game_users[c].daily_streak >= 1

C23_Witness ==
  /\ 2 \notin DOMAIN start
  /\ 2 \in DOMAIN game_users
  /\ game_users[2].daily_streak = 2
  /\ TapDates(2) = {3, 4}

\* C24: checkpoint invariant, requests one at a time under a non-decreasing
\* clock.  No stored energy_updated_at is later than now; no step moves a
\* stored energy_updated_at back; and after a get_state or an accepted tap
\* of an account, less than regen_rate_seconds separate its checkpoint from
\* now.
CheckpointFresh(c) ==
  now - game_users'[c].energy_updated_at < game_users'[c].regen_rate_seconds * TicksPerSec

C24_Checkpoint ==
  [][/\ \A c \in DOMAIN game_users : game_users[c].energy_updated_at <= now
     /\ \A c \in DOMAIN game_users' : game_users'[c].energy_updated_at <= now'
     /\ \A c \in DOMAIN game_users :
          /\ c \in DOMAIN game_users'
          /\ game_users'[c].energy_updated_at >= game_users[c].energy_updated_at
     /\ \A c \in registered :
          /\ (ApiState(c) /\ ret'.ok) => CheckpointFresh(c)
          /\ \A n \in TapNonces : (ApiTap(c, n) /\ ret'.ok) => CheckpointFresh(c)]_vars

C24_Witness ==
  /\ ret.op = "state" /\ ret.ok
  /\ now = Sec(3)
  /\ 1 \in DOMAIN start
  /\ start[1].energy = 1
  /\ game_users[1].energy = 2
  /\ game_users[1].energy_updated_at = now

\* C25: replay cache bound (helpers).  The nonces of the recorded taps, and
\* what any step may do to the account's replay cache: it holds at most 200
\* nonces; a nonce leaves it only in a request (never in a step where only
\* time passes) whose added nonce makes the size exceed 200, the cache then
\* being cut to 100; while at most 200 nonces were recorded all are retained.
Recorded == {game_taps[i].nonce : i \in 1..Len(game_taps)}

CacheBounded ==
  /\ Cardinality(recent_nonces'[1]) <= 200
  /\ ~(recent_nonces[1] \subseteq recent_nonces'[1]) =>
       /\ now' = now
       /\ ret'.op = "tap"
       /\ Cardinality(recent_nonces[1] \cup {ret'.nonce}) > 200
       /\ Cardinality(recent_nonces'[1]) = 100
  /\ Len(game_taps') <= 200 => Recorded' \subseteq recent_nonces'[1]

\* C25 as stated: the cache bound above, and every resubmission of a retained
\* nonce is answered "Replay blocked" and records nothing.
C25_ReplayCacheAsStated ==
  [][/\ CacheBounded
     /\ \A n \in ReplayNonces :
          (n \in recent_nonces[1] /\ ApiTap(1, n)) =>
            (ret'.error = "Replay blocked" /\ game_taps' = game_taps)]_vars

\* C25 as amended: the cache bound above, and every resubmission of a retained
\* nonce that passes the rate gate is answered "Replay blocked"; one the rate
\* gate refuses is answered "Rate limited"; none records a tap.
C25_ReplayCache ==
  [][/\ CacheBounded
     /\ \A n \in ReplayNonces :
          (n \in recent_nonces[1] /\ ApiTap(1, n)) =>
            /\ ret'.error \in {"Replay blocked", "Rate limited"}
            /\ ret'.error = "Replay blocked" <=> Len(passed[1]) < 20
            /\ game_taps' = game_taps]_vars

C25_Witness ==
  /\ ret.op = "tap" /\ ret.error = "Replay blocked" /\ ret.nonce = <<1>>
  /\ Cardinality(recent_nonces[1]) = 200
  /\ Len(game_taps) = 200
  /\ now > 0

\* C26: ledger invariant (helpers).  An account's coins and its events; the
\* ledger is coins minus the deltas of all its events, of any age; what a
\* step charges is the cost of the boost it activates with success.
Coins(gusers, c) == IF c \in DOMAIN gusers THEN gusers[c].coins ELSE 0
EventsOf(taps, c) == {i \in 1..Len(taps) : taps[i].chat_id = c}
Ledger(gusers, taps, c) == Coins(gusers, c) - TapSum(taps, c, 0)
NoBoostBought(c) ==
  c \in DOMAIN game_users =>
    LET was == IF c \in DOMAIN start THEN start[c] ELSE NewGameUser(now)
    IN  /\ game_users[c].multitap_until = was.multitap_until
        /\ game_users[c].autotap_until = was.autotap_until
        /\ game_users[c].max_energy = was.max_energy

\* C26: ledger invariant.  With requests served one at a time: a step never
\* changes or removes an event; it appends one event, of the tapping account
\* and with delta 1 or 2, exactly when it is a tap answered ok; an account's
\* coins minus the sum of its deltas drops by the cost in a step that
\* activates a boost with success and is unchanged by every other step, so
\* coins = coins at start + sum of deltas - sum of costs; and the `all`
\* listing scores an account that bought no boost with that sum over every
\* event.
C26_Ledger ==
  [][/\ Len(game_taps') >= Len(game_taps)
     /\ SubSeq(game_taps', 1, Len(game_taps)) = game_taps
     /\ \A c \in Accounts :
          LET accepted == /\ ret'.op = "tap" /\ ret'.ok /\ ret'.chat_id = c
                          /\ ret'.nonce \in TapNonces /\ now' = now
                          /\ ApiTap(c, ret'.nonce)
              activated(name) == /\ ret'.op = "boost" /\ ret'.ok /\ ret'.chat_id = c
                                 /\ now' = now /\ ApiBoost(c, name)
              ledger == Ledger(game_users, game_taps, c)
              ledger2 == Ledger(game_users', game_taps', c)
          IN
          /\ accepted <=> Cardinality(EventsOf(game_taps', c))
                            = Cardinality(EventsOf(game_taps, c)) + 1
          /\ ~accepted => EventsOf(game_taps', c) = EventsOf(game_taps, c)
          /\ \A i \in EventsOf(game_taps', c) : game_taps'[i].delta \in {1, 2}
          /\ \A name \in BoostNames : activated(name) => ledger2 = ledger - Cost(name)
          /\ ~(\E name \in BoostNames : activated(name)) => ledger2 = ledger
     /\ \A items \in leaderboard(game_users', game_taps', "all",
                                 API_LEADERBOARD_LIMIT, now') :
          \A i \in 1..Len(items) :
            NoBoostBought(items[i].chat_id)' =>
              items[i].score = Coins(start, items[i].chat_id)
                                 + TapSum(game_taps', items[i].chat_id, 0)]_vars

C26_Witness ==
  /\ ret.op = "boost" /\ ret.ok
  /\ Len(game_taps) = 2
  /\ game_taps[1].delta = 1
  /\ game_taps[2].delta = 2
  /\ start[1].coins = 3500
  /\ game_users[1].coins = 3500 + 3 - 2000

\* C27: regeneration is path-independent (helper).  The persisted pair.
Persisted(gusers, c) == <<gusers[c].energy, gusers[c].energy_updated_at>>

\* C27: regeneration is path-independent.  When get_state acts at a time t1
\* not before the stored checkpoint, a get_state at any later time t2 persists
\* the same (energy, checkpoint) after it as it would have persisted instead
\* of it: performed at t1 and then t2, or only at t2, also when the energy is
\* capped at max_energy.
C27_PathIndependent ==
  [][(ApiState(1) /\ game_users[1].energy_updated_at <= now) =>
       \A t2 \in now..(now + Sec(MaxRegenTime)) :
         Persisted(api_state_store(game_users', 1, t2), 1)
           = Persisted(api_state_store(game_users, 1, t2), 1)]_vars

C27_Witness ==
  /\ ret.op = "state" /\ ret.ok
  /\ start[1].energy = 499
  /\ start[1].regen_rate_seconds = 1
  /\ game_users[1].energy = game_users[1].max_energy
  /\ game_users[1].energy_updated_at > start[1].energy_updated_at
  /\ game_users[1].energy_updated_at < now
  /\ now < start[1].energy_updated_at + Sec(MaxRegenTime - 1)

\* C28: replay check under concurrency.  Of the tap requests of one account
\* that carry the same nonce at most one is accepted, so no two events have
\* the same account and nonce (the cache never reaches its cut here, so every
\* recorded nonce is retained).
C28_ConcurrentReplay ==
  /\ \A t1 \in AcceptedTaps, t2 \in AcceptedTaps :
       (th[t1].chat_id = th[t2].chat_id /\ th[t1].nonce = th[t2].nonce) => t1 = t2
  /\ \A i \in 1..Len(game_taps), j \in 1..Len(game_taps) :
       (game_taps[i].chat_id = game_taps[j].chat_id
          /\ game_taps[i].nonce = game_taps[j].nonce) => i = j

\* C29: rate gate under concurrency.  With the eviction, the length test and
\* the append of can_tap_now running as separate steps of concurrent threads,
\* the attempts of an account that passed the rate gate within the last
\* second never number more than 20, and neither do the entries of its window.
C29_ConcurrentRateGate ==
  \A c \in Accounts :
    /\ Len(passed[c]) <= MAX_TAPS_PER_SEC
    /\ Len(rate_windows[c]) <= MAX_TAPS_PER_SEC

\* C30: get_state racing with a tap.  Once a get_state request and an accepted
\* tap of the same account, the only two requests served, have both completed
\* within one instant, however their steps interleaved, the stored energy is
\* one lower than before, and coins and streak are those the tap leaves.
C30_StateTapRace ==
  \A s \in Threads, t \in Threads :
    ( /\ th[s].op = "state" /\ th[s].pc = "done" /\ th[s].resp.ok
      /\ th[t].op = "tap" /\ th[t].pc = "done" /\ th[t].resp.ok
      /\ th[s].chat_id = th[t].chat_id
      /\ \A o \in Threads \ {s, t} : th[o].pc = "idle" ) =>
    LET c == th[t].chat_id
        su == streak_update(start[c], TRUE, now)
    IN  /\ game_users[c].energy = start[c].energy - 1
        /\ game_users[c].coins = start[c].coins + th[t].delta
        /\ game_users[c].daily_streak = su.streak
        /\ game_users[c].last_streak_at = su.date

====
